---- MODULE Spec2Model ----
(***************************************************************************)
(* Model of src/src/snap_polarimetry.py (class SNAPPolarimetry): the       *)
(* per-feature orchestration of process(), the polarisation check and the  *)
(* engine run of process_snap(), the DEM selection of assert_dem(), the    *)
(* node pruning of process_template() / revise_graph_xml() and the band    *)
(* stacking of rename_final_stack() / read_write_bigtiff().                *)
(*                                                                         *)
(* Files are modelled by their content: a graph xml file is the sequence   *)
(* of its <node> elements in document order, each with its id, the refid   *)
(* of its first source and (for Terrain-Correction) its demName; a stack   *)
(* is the sequence of its band descriptions.  Latitudes are whole degrees. *)
(***************************************************************************)
EXTENDS Integers, Sequences, FiniteSets, TLC

VARIABLES
    params,         \* self.params: the processing configuration
    input_fc,       \* the input feature collection handed to process()
    template,       \* template/snap_polarimetry_graph.xml (the base template file)
    template_copy,  \* template/snap_polarimetry_graph_copy.xml
    graphs,         \* the job graph files written, in the order they were written
    engine_log,     \* the os.system(gpt ...) calls made, in order
    pc,             \* position in process() / the exception that ended the run
    feat,           \* index of in_feature in input_fc
    pol_i,          \* index of polarisation in requested_pols
    key_i,          \* index of key in process_template's params dict
    r_c,            \* the value extract_relevant_coordinate returned last
    out_files,      \* process_snap's out_files
    results,        \* process()'s results: the output features, by input index
    out_dict,       \* process()'s out_dict, in insertion order
    out_i,          \* index of out_id in out_dict
    stacks,         \* the final stack files written, in order
    exit_status     \* the exit status of the process after sys.exit; -1 before

vars == <<params, input_fc, template, template_copy, graphs, engine_log, pc,
          feat, pol_i, key_i, r_c, out_files, results, out_dict, out_i,
          stacks, exit_status>>

-----------------------------------------------------------------------------
(* Bounds of the model *)

\* the longest input feature collection
MaxFeatures == 2
\* the longest list of requested polarisations drawn for validate_polarisations
MaxReq == 2

-----------------------------------------------------------------------------
(* Strings: str.upper() and str.lower() on the polarisation names *)

Upper(s) ==
    CASE s = "vv" -> "VV"
      [] s = "vh" -> "VH"
      [] s = "hh" -> "HH"
      [] OTHER -> s

Lower(s) ==
    CASE s = "VV" -> "vv"
      [] s = "VH" -> "vh"
      [] s = "HH" -> "hh"
      [] OTHER -> s

-----------------------------------------------------------------------------
(* The graph template *)

\* the ids of the template's nodes, in document order: the reader, the
\* calibration, the five optional nodes and the writer
NodeIds ==
    << "Read", "Calibration", "Speckle-Filter", "Terrain-Correction",
       "LinearToFromdB", "Subset", "Land-Sea-Mask", "Write" >>

\* a graph file whose nodes are a chain in document order, every node
\* reading the node before it
Chain(ids) ==
    [k \in 1..Len(ids) |->
        [id    |-> ids[k],
         refid |-> IF k = 1 THEN "" ELSE ids[k - 1],
         dem   |-> IF ids[k] = "Terrain-Correction" THEN "SRTM 3Sec" ELSE ""]]

\* the template as shipped
BaseTemplate == Chain(NodeIds)

NoFile == [exists |-> FALSE, nodes |-> << >>]
File(nodes) == [exists |-> TRUE, nodes |-> nodes]

\* the keys of process_template's params dict, in insertion order
TemplateKeys ==
    << "Subset", "Land-Sea-Mask", "Speckle-Filter", "Terrain-Correction",
       "LinearToFromdB" >>

\* the value process_template's params dict holds for a key
TemplateParam(p, key) ==
    CASE key = "Subset"             -> p.clip_to_aoi
      [] key = "Land-Sea-Mask"      -> p.mask # "None"
      [] key = "Speckle-Filter"     -> p.speckle_filter
      [] key = "Terrain-Correction" -> p.tcorrection
      [] key = "LinearToFromdB"     -> p.linear_to_db

HasNode(nodes, key) == \E i \in 1..Len(nodes) : nodes[i].id = key
IndexOf(nodes, key) == CHOOSE i \in 1..Len(nodes) : nodes[i].id = key

\* all_nodes[index + 1] does not exist when the node to remove is the last one
revise_raises(nodes, key) ==
    HasNode(nodes, key) /\ IndexOf(nodes, key) = Len(nodes)

\* revise_graph_xml without the re-link of the consumer
revise_graph_xml_norelink(nodes, key) ==
    IF ~HasNode(nodes, key) THEN nodes
    ELSE LET i == IndexOf(nodes, key)
         IN  SubSeq(nodes, 1, i - 1) \o SubSeq(nodes, i + 1, Len(nodes))

\* revise_graph_xml: remove the node named key and set the refid of the next
\* node in document order to the id of the previous node in document order
revise_graph_xml(nodes, key) ==
    IF ~HasNode(nodes, key) THEN nodes
    ELSE LET n  == Len(nodes)
             i  == IndexOf(nodes, key)
             up == IF i = 1 THEN n ELSE i - 1
             relinked ==
                 [k \in 1..n |->
                     IF k = i + 1
                     THEN [nodes[k] EXCEPT !.refid = nodes[up].id]
                     ELSE nodes[k]]
         IN  SubSeq(relinked, 1, i - 1) \o SubSeq(relinked, i + 1, n)

\* shutil.copy that keeps a destination file that is already there
shutil_copy_if_missing(src, dst) == IF dst.exists THEN dst ELSE File(src)

\* shutil.copy(src, dst): dst becomes a file with the content of src, whatever
\* dst held before
shutil_copy(src, dst) == File(src)

\* the for loop of process_template over the first k keys
RECURSIVE PruneKeys(_, _, _)
PruneKeys(nodes, p, k) ==
    IF k = 0 THEN nodes
    ELSE LET before == PruneKeys(nodes, p, k - 1)
         IN  IF ~TemplateParam(p, TemplateKeys[k])
             THEN revise_graph_xml(before, TemplateKeys[k])
             ELSE before

\* process_template's loop over all keys, on the nodes of the copy
process_template(nodes, p) == PruneKeys(nodes, p, Len(TemplateKeys))

\* replace_dem: the Terrain-Correction node's DEM becomes ASTER
replace_dem(nodes) ==
    [k \in 1..Len(nodes) |->
        IF nodes[k].id = "Terrain-Correction"
        THEN [nodes[k] EXCEPT !.dem = "ASTER 1sec GDEM"]
        ELSE nodes[k]]

-----------------------------------------------------------------------------
(* DEM selection *)

Min(a, b) == IF a < b THEN a ELSE b
Max(a, b) == IF a > b THEN a ELSE b

Unbound == [bound |-> FALSE, value |-> 0]
Bound(v) == [bound |-> TRUE, value |-> v]

\* extract_relevant_coordinate(coor): coor[1] and coor[3] of the source are
\* coor[2] and coor[4] here; "coor[1] and coor[3] < 0" is
\* "coor[1] is not zero, and coor[3] < 0"; relevant_coor stays unbound when
\* neither if assigns it
extract_relevant_coordinate(coor) ==
    LET southern == coor[2] # 0 /\ coor[4] < 0
        northern == coor[2] # 0 /\ coor[4] > 0
    IN  IF northern THEN Bound(Max(coor[2], coor[4]))
        ELSE IF southern THEN Bound(Min(coor[2], coor[4]))
        ELSE Unbound

\* the latitudes between which assert_dem keeps the default DEM
DemSouth == -56
DemNorth == 60

\* the condition of assert_dem: not -56.0 < r_c < 60.0
srtm_not_covering(lat) == ~(DemSouth < lat /\ lat < DemNorth)

-----------------------------------------------------------------------------
(* Polarisations *)

\* extract_polarisations: the upper-cased polarisation token of each
\* measurement file
extract_polarisations(feature) == {Upper(t) : t \in feature.measurement}

\* validate_polarisations that only remembers the last polarisation
validate_polarisations_last(req, avail) ==
    IF req = << >> THEN TRUE
    ELSE req[Len(req)] \in avail

\* validate_polarisations that accepts when some polarisation is available
RECURSIVE validate_polarisations_any(_, _)
validate_polarisations_any(req, avail) ==
    IF req = << >> THEN TRUE
    ELSE (req[Len(req)] \in avail)
            \/ (Len(req) > 1
                /\ validate_polarisations_any(SubSeq(req, 1, Len(req) - 1), avail))

\* validate_polarisations: available = available and (pol in avail), over the
\* requested polarisations in order, starting from True
RECURSIVE validate_polarisations(_, _)
validate_polarisations(req, avail) ==
    IF req = << >> THEN TRUE
    ELSE validate_polarisations(SubSeq(req, 1, Len(req) - 1), avail)
            /\ (req[Len(req)] \in avail)

\* process(): polarisations = self.params.polarisations or ["VV"]
polarisations == IF params.polarisations = << >> THEN << "VV" >> ELSE params.polarisations

-----------------------------------------------------------------------------
(* The engine *)

\* os.system on Unix returns the wait status: the exit code in the high byte
os_system(code) == (code * 256) % 65536

\* sys.exit(n): the exit status of the process is the low byte of n
sys_exit(n) == n % 256

\* process_snap's out_file_pol, f"/tmp/input/{stem}_{polarisation.lower()}",
\* as its parts: the scene's stem and the part after the last "_"
out_file_pol(f, pol) == [stem |-> f, last |-> Lower(pol)]

\* i.split("_")[-1]
split_last(path) == path.last

\* line 325: self.params.clip_to_aoi and is_empty(tile)
tile_discarded(p, empty) == p.clip_to_aoi /\ empty

\* line 350 treated as never true
no_images_never(files) == FALSE

\* line 350: not processed_graphs
no_images(files) == files = << >>

\* process(): z = [i.split("_")[-1] for i in processed_graphs], reversed
z_of_reversed(files) == [k \in 1..Len(files) |-> split_last(files[Len(files) + 1 - k])]

\* process(): z = [i.split("_")[-1] for i in processed_graphs]
z_of(files) == [k \in 1..Len(files) |-> split_last(files[k])]

\* read_write_bigtiff: band b_id + 1 gets the description pol[b_id]
read_write_bigtiff(pol) == [b \in 1..Len(pol) |-> pol[b]]

-----------------------------------------------------------------------------
(* Configuration *)

\* assert_input_params that accepts filters without clip_to_aoi
input_params_rejected_clip_only(p) ==
    p.clip_to_aoi /\ ~p.bbox /\ ~p.contains /\ ~p.intersects

\* assert_input_params raises: bbox, contains and intersects are TRUE when set
\* (not None, and truthy)
input_params_rejected(p) ==
    IF ~p.clip_to_aoi
    THEN p.bbox \/ p.contains \/ p.intersects
    ELSE ~p.bbox /\ ~p.contains /\ ~p.intersects

-----------------------------------------------------------------------------
(* Inputs *)

MaskChoices == {"None", "land", "sea"}

\* the values of self.params.polarisations; the empty list is "not given"
PolarisationChoices == { << >>, << "VV", "VH" >>, << "VH", "VV" >> }

\* bbox, contains, intersects: which of the spatial filters are set
FilterChoices ==
    { <<FALSE, FALSE, FALSE>>, <<TRUE, FALSE, FALSE>>, <<FALSE, FALSE, TRUE>>,
      <<TRUE, TRUE, FALSE>> }

\* speckle_filter, tcorrection, linear_to_db: the defaults, and all off
NodeFlagChoices == { <<TRUE, TRUE, TRUE>>, <<FALSE, FALSE, FALSE>> }

Params(c, f, m, n, q) ==
    [clip_to_aoi    |-> c,
     bbox           |-> f[1],
     contains       |-> f[2],
     intersects     |-> f[3],
     mask           |-> m,
     speckle_filter |-> n[1],
     tcorrection    |-> n[2],
     linear_to_db   |-> n[3],
     polarisations  |-> q]

ParamsChoices ==
    { Params(c, f, m, n, q) :
        c \in BOOLEAN, f \in FilterChoices, m \in {"None", "land"},
        n \in NodeFlagChoices, q \in PolarisationChoices }

\* the polarisation tokens of the files a scene's measurement folder holds
MeasurementChoices == { {"vv", "vh"}, {"vv"}, {} }

\* bounding boxes <<min lon, min lat, max lon, max lat>>: inside the default
\* DEM's coverage, north of it, and with a latitude bound on the equator
BBoxChoices == { <<14, 10, 15, 20>>, <<14, 59, 15, 61>>, <<14, 0, 15, 10>> }

FeatureChoices == [bbox : BBoxChoices, measurement : MeasurementChoices]

FeatureCollections == UNION { [1..n -> FeatureChoices] : n \in 0..MaxFeatures }

\* what one run of the engine does: its exit code and, when it succeeded,
\* whether the tile it wrote holds no valid pixel
EngineRuns ==
    { [code |-> 0, empty |-> e] : e \in BOOLEAN }
        \cup { [code |-> c, empty |-> FALSE] : c \in {1, 137} }

-----------------------------------------------------------------------------
(* process() *)

Fresh ==
    /\ template = BaseTemplate
    /\ template_copy = NoFile
    /\ graphs = << >>
    /\ engine_log = << >>
    /\ feat = 1
    /\ pol_i = 1
    /\ key_i = 1
    /\ r_c = Unbound
    /\ out_files = << >>
    /\ results = << >>
    /\ out_dict = << >>
    /\ out_i = 1
    /\ stacks = << >>
    /\ exit_status = -1

Init ==
    /\ params \in ParamsChoices
    /\ input_fc \in FeatureCollections
    /\ pc = "process"
    /\ Fresh

\* lines 338-343: assert_input_params raises or the feature loop starts
AssertInputParams ==
    /\ pc = "process"
    /\ pc' = IF input_params_rejected(params) THEN "WRONG_INPUT_ERROR" ELSE "for_feature"
    /\ UNCHANGED <<params, input_fc, template, template_copy, graphs, engine_log,
                   feat, pol_i, key_i, r_c, out_files, results, out_dict, out_i,
                   stacks, exit_status>>

\* assert_dem choosing the DEM for each feature afresh: the default DEM is
\* written back when lat is covered
assert_dem_per_feature(nodes, lat) ==
    IF srtm_not_covering(lat) THEN replace_dem(nodes)
    ELSE [k \in 1..Len(nodes) |->
             IF nodes[k].id = "Terrain-Correction"
             THEN [nodes[k] EXCEPT !.dem = "SRTM 3Sec"]
             ELSE nodes[k]]

\* assert_dem, once extract_relevant_coordinate has returned lat
assert_dem(nodes, lat) ==
    IF srtm_not_covering(lat) THEN replace_dem(nodes) ELSE nodes

\* lines 344-346: the next feature; assert_dem(in_feature["bbox"])
AssertDem ==
    /\ pc = "for_feature"
    /\ feat <= Len(input_fc)
    /\ LET r == extract_relevant_coordinate(input_fc[feat].bbox)
       IN  /\ r_c' = r
           /\ IF r.bound
              THEN /\ template' = assert_dem(template, r.value)
                   /\ pc' = "process_snap"
              ELSE /\ template' = template
                   /\ pc' = "UnboundLocalError"
    /\ UNCHANGED <<params, input_fc, template_copy, graphs, engine_log, feat,
                   pol_i, key_i, out_files, results, out_dict, out_i, stacks,
                   exit_status>>

\* lines 286-294: process_snap up to the polarisation check
ProcessSnapValidate ==
    /\ pc = "process_snap"
    /\ out_files' = << >>
    /\ pol_i' = 1
    /\ pc' = IF validate_polarisations(polarisations,
                                       extract_polarisations(input_fc[feat]))
             THEN "for_polarisation"
             ELSE "WrongPolarizationError"
    /\ UNCHANGED <<params, input_fc, template, template_copy, graphs, engine_log,
                   feat, key_i, r_c, results, out_dict, out_i, stacks,
                   exit_status>>

\* lines 375-381: except WrongPolarizationError: continue
ExceptWrongPolarization ==
    /\ pc = "WrongPolarizationError"
    /\ feat' = feat + 1
    /\ pc' = "for_feature"
    /\ UNCHANGED <<params, input_fc, template, template_copy, graphs, engine_log,
                   pol_i, key_i, r_c, out_files, results, out_dict, out_i,
                   stacks, exit_status>>

\* lines 296-303: generate_snap_graph for the next polarisation
GenerateSnapGraph ==
    /\ pc = "for_polarisation"
    /\ pol_i <= Len(polarisations)
    /\ LET copy  == shutil_copy(template, template_copy)
           nodes == process_template(copy.nodes, params)
       IN  /\ template_copy' = File(nodes)
           /\ graphs' = Append(graphs, [feature      |-> feat,
                                        polarisation |-> polarisations[pol_i],
                                        nodes        |-> nodes])
    /\ pc' = "os_system"
    /\ UNCHANGED <<params, input_fc, template, engine_log, feat, pol_i, key_i,
                   r_c, out_files, results, out_dict, out_i, stacks,
                   exit_status>>

\* line 315 treated as never true
engine_failed_never(return_value) == FALSE

\* line 315: if return_value
engine_failed(return_value) == return_value # 0

\* lines 305-330: the engine runs; sys.exit on a failure, else the tile is
\* kept or discarded
RunEngine ==
    /\ pc = "os_system"
    /\ \E run \in EngineRuns :
         LET pol == polarisations[pol_i]
             return_value == os_system(run.code)
         IN  /\ engine_log' = Append(engine_log, [feature      |-> feat,
                                                  polarisation |-> pol,
                                                  code         |-> run.code,
                                                  empty        |-> run.empty])
             /\ IF engine_failed(return_value)
                THEN /\ exit_status' = sys_exit(return_value)
                     /\ pc' = "SystemExit"
                     /\ UNCHANGED <<out_files, pol_i>>
                ELSE /\ out_files' = IF tile_discarded(params, run.empty)
                                     THEN out_files
                                     ELSE Append(out_files, out_file_pol(feat, pol))
                     /\ pol_i' = pol_i + 1
                     /\ pc' = "for_polarisation"
                     /\ UNCHANGED exit_status
    /\ UNCHANGED <<params, input_fc, template, template_copy, graphs, feat,
                   key_i, r_c, results, out_dict, out_i, stacks>>

\* lines 332, 349-374: process_snap returns; the feature is skipped or emitted
ProcessSnapReturn ==
    /\ pc = "for_polarisation"
    /\ pol_i > Len(polarisations)
    /\ IF no_images(out_files)
       THEN UNCHANGED <<results, out_dict, template_copy>>
       ELSE /\ results' = Append(results, feat)
            /\ out_dict' = Append(out_dict, [id |-> feat, z |-> z_of(out_files)])
            /\ template_copy' = NoFile
    /\ feat' = feat + 1
    /\ pc' = "for_feature"
    /\ UNCHANGED <<params, input_fc, template, graphs, engine_log, pol_i, key_i,
                   r_c, out_files, out_i, stacks, exit_status>>

\* lines 383-388: after the last feature
LoopDone ==
    /\ pc = "for_feature"
    /\ feat > Len(input_fc)
    /\ pc' = IF results = << >> THEN "NO_OUTPUT_ERROR" ELSE "for_out_id"
    /\ UNCHANGED <<params, input_fc, template, template_copy, graphs, engine_log,
                   feat, pol_i, key_i, r_c, out_files, results, out_dict, out_i,
                   stacks, exit_status>>

\* lines 390-395: rename_final_stack writes the stack of the next out_id
RenameFinalStack ==
    /\ pc = "for_out_id"
    /\ out_i <= Len(out_dict)
    /\ stacks' = Append(stacks, [id    |-> out_dict[out_i].id,
                                 bands |-> read_write_bigtiff(out_dict[out_i].z)])
    /\ out_i' = out_i + 1
    /\ UNCHANGED <<params, input_fc, template, template_copy, graphs, engine_log,
                   pc, feat, pol_i, key_i, r_c, out_files, results, out_dict,
                   exit_status>>

\* lines 397-402: the output collection is returned
Return ==
    /\ pc = "for_out_id"
    /\ out_i > Len(out_dict)
    /\ pc' = "return"
    /\ UNCHANGED <<params, input_fc, template, template_copy, graphs, engine_log,
                   feat, pol_i, key_i, r_c, out_files, results, out_dict, out_i,
                   stacks, exit_status>>

Next ==
    \/ AssertInputParams
    \/ AssertDem
    \/ ProcessSnapValidate
    \/ ExceptWrongPolarization
    \/ GenerateSnapGraph
    \/ RunEngine
    \/ ProcessSnapReturn
    \/ LoopDone
    \/ RenameFinalStack
    \/ Return

Spec == Init /\ [][Next]_vars

-----------------------------------------------------------------------------
(* validate_polarisations on its own: process_snap's polarisation check on *)
(* every short list of requested names and every set of measurement files  *)

ReqNames == {"VV", "VH", "vv"}

Tokens == {"vv", "vh", "hh"}

ReqChoices == UNION { [1..n -> ReqNames] : n \in 0..MaxReq }

DefaultParams ==
    Params(FALSE, <<FALSE, FALSE, FALSE>>, "None", <<TRUE, TRUE, TRUE>>, << >>)

InitValidate ==
    /\ \E q \in ReqChoices : params = [DefaultParams EXCEPT !.polarisations = q]
    /\ \E m \in SUBSET Tokens :
          input_fc = << [bbox |-> <<14, 10, 15, 20>>, measurement |-> m] >>
    /\ pc = "process_snap"
    /\ Fresh

SpecValidate == InitValidate /\ [][ProcessSnapValidate]_vars

-----------------------------------------------------------------------------
(* assert_dem on its own: the DEM selection on every pair of latitude      *)
(* bounds around the limits of the default DEM and around the equator      *)

DemLats == {-57, -56, -55, -10, -1, 0, 1, 10, 59, 60, 61}

InitDem ==
    /\ params = DefaultParams
    /\ \E a \in DemLats, b \in DemLats :
          /\ a <= b
          /\ input_fc = << [bbox |-> <<14, a, 15, b>>, measurement |-> {"vv"}] >>
    /\ pc = "for_feature"
    /\ Fresh

SpecDem == InitDem /\ [][AssertDem]_vars

-----------------------------------------------------------------------------
(* process_template step by step: the copy of the template, one key of the *)
(* params dict at a time, and the substitution                             *)

GraphParamsChoices ==
    { Params(c, IF c THEN <<TRUE, FALSE, FALSE>> ELSE <<FALSE, FALSE, FALSE>>,
             m, n, << >>) :
        c \in BOOLEAN, m \in MaskChoices, n \in BOOLEAN \X BOOLEAN \X BOOLEAN }

\* the nodes between the reader and the writer
InnerIds == { NodeIds[k] : k \in 2..(Len(NodeIds) - 1) }

\* the chains from Read to Write over the template's nodes, the nodes
\* between them in any document order
TemplateChoices ==
    { Chain(<< "Read" >> \o [k \in 1..(Len(NodeIds) - 2) |-> f[NodeIds[k + 1]]]
                       \o << "Write" >>) :
        f \in Permutations(InnerIds) }

InitGraph ==
    /\ params \in GraphParamsChoices
    /\ input_fc = << [bbox |-> <<14, 10, 15, 20>>, measurement |-> {"vv"}] >>
    /\ pc = "process_template"
    /\ template_copy = NoFile
    /\ template \in TemplateChoices
    /\ graphs = << >>
    /\ engine_log = << >>
    /\ feat = 1
    /\ pol_i = 1
    /\ key_i = 1
    /\ r_c = Unbound
    /\ out_files = << >>
    /\ results = << >>
    /\ out_dict = << >>
    /\ out_i = 1
    /\ stacks = << >>
    /\ exit_status = -1

\* lines 130-138: shutil.copy(src, dst)
TemplateCopy ==
    /\ pc = "process_template"
    /\ template_copy' = shutil_copy(template, template_copy)
    /\ key_i' = 1
    /\ pc' = "for_key"
    /\ UNCHANGED <<params, input_fc, template, graphs, engine_log, feat, pol_i,
                   r_c, out_files, results, out_dict, out_i, stacks,
                   exit_status>>

\* lines 148-151: the next key of the params dict
ReviseKey ==
    /\ pc = "for_key"
    /\ key_i <= Len(TemplateKeys)
    /\ LET key == TemplateKeys[key_i]
       IN  IF TemplateParam(params, key)
           THEN UNCHANGED <<template_copy, pc>>
           ELSE /\ template_copy' =
                      IF revise_raises(template_copy.nodes, key)
                      THEN template_copy
                      ELSE File(revise_graph_xml(template_copy.nodes, key))
                /\ pc' = IF revise_raises(template_copy.nodes, key)
                         THEN "IndexError"
                         ELSE pc
    /\ key_i' = key_i + 1
    /\ UNCHANGED <<params, input_fc, template, graphs, engine_log, feat, pol_i,
                   r_c, out_files, results, out_dict, out_i, stacks,
                   exit_status>>

\* lines 153-156 and 217-219: the graph is rendered and written
TemplateSubstitute ==
    /\ pc = "for_key"
    /\ key_i > Len(TemplateKeys)
    /\ graphs' = Append(graphs, [feature      |-> feat,
                                 polarisation |-> polarisations[pol_i],
                                 nodes        |-> template_copy.nodes])
    /\ pc' = "os_system"
    /\ UNCHANGED <<params, input_fc, template, template_copy, engine_log, feat,
                   pol_i, key_i, r_c, out_files, results, out_dict, out_i,
                   stacks, exit_status>>

NextGraph ==
    \/ TemplateCopy
    \/ ReviseKey
    \/ TemplateSubstitute

SpecGraph == InitGraph /\ [][NextGraph]_vars

-----------------------------------------------------------------------------
(* What the claims speak of *)

\* feature i has a measurement file for every requested polarisation
AllAvailable(i) ==
    \A k \in 1..Len(polarisations) :
        \E t \in input_fc[i].measurement : Upper(t) = polarisations[k]

\* feature i has a measurement file for some requested polarisation
SomeAvailable(i) ==
    \E k \in 1..Len(polarisations) :
        \E t \in input_fc[i].measurement : Upper(t) = polarisations[k]

\* the feature loop is past feature i
Processed(i) == i < feat

\* the output collection holds a feature made from input feature i
Emitted(i) == \E k \in 1..Len(results) : results[k] = i

\* the output features are in input order, each input feature at most once
InInputOrder ==
    \A j, k \in 1..Len(results) : j < k => results[j] < results[k]

\* the engine wrote, for feature i, a tile that holds valid pixels
NonEmptyTile(i) ==
    \E k \in 1..Len(engine_log) :
        /\ engine_log[k].feature = i
        /\ engine_log[k].code = 0
        /\ ~engine_log[k].empty

\* the engine wrote, for feature i, a tile that was not classified empty:
\* tiles are classified only when clip_to_aoi is on
KeptTile(i) ==
    \E k \in 1..Len(engine_log) :
        /\ engine_log[k].feature = i
        /\ engine_log[k].code = 0
        /\ ~(params.clip_to_aoi /\ engine_log[k].empty)

\* the tile of feature i and polarisation p was classified empty
ClassifiedEmpty(i, p) ==
    \E k \in 1..Len(engine_log) :
        /\ engine_log[k].feature = i
        /\ engine_log[k].polarisation = p
        /\ engine_log[k].code = 0
        /\ params.clip_to_aoi
        /\ engine_log[k].empty

\* the requested polarisations, in request order, without those of feature i
\* whose tile was classified empty
RECURSIVE KeptFrom(_, _)
KeptFrom(i, pols) ==
    IF pols = << >> THEN << >>
    ELSE IF ClassifiedEmpty(i, Head(pols))
         THEN KeptFrom(i, Tail(pols))
         ELSE << Head(pols) >> \o KeptFrom(i, Tail(pols))

KeptPols(i) == KeptFrom(i, polarisations)

LoopOver == feat > Len(input_fc)

-----------------------------------------------------------------------------
(* C1 *)

\* C1 as stated: the output collection holds, in input order, exactly the
\* input features that have every requested polarisation and for which the
\* engine wrote at least one non-empty tile; process() returns no empty
\* collection and raises NO_OUTPUT_ERROR when no feature produced output.
C1_AsStated ==
    /\ InInputOrder
    /\ \A i \in 1..Len(input_fc) :
          Emitted(i) <=> (Processed(i) /\ AllAvailable(i) /\ NonEmptyTile(i))
    /\ pc = "return" => (LoopOver /\ results # << >>)
    /\ pc = "NO_OUTPUT_ERROR" =>
          (LoopOver /\ \A i \in 1..Len(input_fc) : ~(AllAvailable(i) /\ NonEmptyTile(i)))

\* C1 amended: the output collection holds, in input order, exactly the input
\* features that have every requested polarisation and at least one tile that
\* was not classified empty (a tile is classified only when clip_to_aoi is
\* on); every other feature is skipped and the loop goes on; process() returns
\* no empty collection and raises NO_OUTPUT_ERROR when no feature produced
\* output.
C1_OutputFeatures ==
    /\ InInputOrder
    /\ \A i \in 1..Len(input_fc) :
          Emitted(i) <=> (Processed(i) /\ AllAvailable(i) /\ KeptTile(i))
    /\ pc = "return" => (LoopOver /\ results # << >>)
    /\ pc = "NO_OUTPUT_ERROR" =>
          (LoopOver /\ \A i \in 1..Len(input_fc) : ~(AllAvailable(i) /\ KeptTile(i)))
    /\ (LoopOver /\ \A i \in 1..Len(input_fc) : ~(AllAvailable(i) /\ KeptTile(i)))
          => pc \in {"process", "WRONG_INPUT_ERROR", "for_feature", "NO_OUTPUT_ERROR"}

\* a run that returned one feature of two: the first lacked a polarisation,
\* the second had an empty tile that was kept because clip_to_aoi is off
C1_Witness ==
    /\ pc = "return"
    /\ Len(input_fc) = 2
    /\ results = << 2 >>
    /\ ~AllAvailable(1)
    /\ ~params.clip_to_aoi
    /\ ~NonEmptyTile(2)

-----------------------------------------------------------------------------
(* C2 *)

\* C2: a non-zero exit code of the engine is the last thing the run does:
\* it is the last engine call, no graph is generated after it, no stack is
\* written, nothing is returned and no step follows.
C2_EngineFailureIsFatal ==
    \A k \in 1..Len(engine_log) :
        engine_log[k].code # 0 =>
            /\ k = Len(engine_log)
            /\ Len(graphs) = k
            /\ stacks = << >>
            /\ pc = "SystemExit"
            /\ ~ENABLED Next

\* the engine failed on the second polarisation of the first of two features
C2_Witness ==
    /\ pc = "SystemExit"
    /\ Len(input_fc) = 2
    /\ feat = 1
    /\ Len(engine_log) = 2
    /\ engine_log[1].code = 0

-----------------------------------------------------------------------------
(* C3 *)

\* C3 as stated: when the engine exits with a non-zero code c, the exit
\* status of the run is non-zero and equal to c.
C3_AsStated ==
    pc = "SystemExit" =>
        /\ exit_status # 0
        /\ exit_status = engine_log[Len(engine_log)].code

-----------------------------------------------------------------------------
(* C4 *)

\* C4: for a feature that lacks any requested polarisation no graph is
\* generated, the engine is never run and no output feature is made; past
\* the polarisation check the feature is in WrongPolarizationError.
C4_AllOrNothing ==
    \A i \in 1..Len(input_fc) :
        ~AllAvailable(i) =>
            /\ \A k \in 1..Len(graphs) : graphs[k].feature # i
            /\ \A k \in 1..Len(engine_log) : engine_log[k].feature # i
            /\ ~Emitted(i)
            /\ (feat = i /\ pc \notin {"process", "WRONG_INPUT_ERROR", "for_feature",
                                       "UnboundLocalError", "process_snap"})
                  => (pc = "WrongPolarizationError" /\ out_files = << >>)

\* a feature that has one of the two requested polarisations was refused
C4_Witness ==
    /\ pc = "WrongPolarizationError"
    /\ SomeAvailable(feat)
    /\ ~AllAvailable(feat)

-----------------------------------------------------------------------------
(* C5 *)

\* C5: the polarisation check passes if and only if every requested
\* polarisation is a member of the available ones.
C5_ValidateIffAllMembers ==
    LET available == extract_polarisations(input_fc[1])
        all_in    == \A k \in 1..Len(polarisations) : polarisations[k] \in available
    IN  /\ pc = "for_polarisation" => all_in
        /\ pc = "WrongPolarizationError" => ~all_in
        /\ pc \in {"process_snap", "for_polarisation", "WrongPolarizationError"}

\* the check failed with nothing available
C5_Witness ==
    /\ pc = "WrongPolarizationError"
    /\ extract_polarisations(input_fc[1]) = {}
    /\ Len(polarisations) = MaxReq

-----------------------------------------------------------------------------
(* C6 *)

HasStack(i) == \E s \in 1..Len(stacks) : stacks[s].id = i

\* C6 as stated: the bands of every stack are tagged with the names of the
\* requested polarisations, in request order, without those classified
\* empty.
C6_AsStated ==
    \A s \in 1..Len(stacks) :
        LET kept == KeptPols(stacks[s].id)
        IN  /\ Len(stacks[s].bands) = Len(kept)
            /\ \A b \in 1..Len(kept) : stacks[s].bands[b] = kept[b]

\* C6 amended: the bands of every stack are tagged with the lower-cased
\* names of the requested polarisations, in request order, without those
\* classified empty (none when clip_to_aoi is off); every emitted feature
\* has one stack when process() returns.
C6_StackBands ==
    /\ \A s \in 1..Len(stacks) :
          LET kept == KeptPols(stacks[s].id)
          IN  /\ Emitted(stacks[s].id)
              /\ Len(stacks[s].bands) = Len(kept)
              /\ \A b \in 1..Len(kept) : stacks[s].bands[b] = Lower(kept[b])
              /\ \A t \in 1..Len(stacks) : stacks[t].id = stacks[s].id => t = s
    /\ pc = "return" => \A i \in 1..Len(input_fc) : Emitted(i) => HasStack(i)

\* a returned run with a two-band stack and a stack that lost its first band
C6_Witness ==
    /\ pc = "return"
    /\ Len(stacks) = 2
    /\ Len(stacks[1].bands) = 2
    /\ Len(stacks[2].bands) = 1
    /\ ClassifiedEmpty(stacks[2].id, polarisations[1])

-----------------------------------------------------------------------------
(* C7 *)

FiltersSet(p) == Cardinality({x \in {"bbox", "contains", "intersects"} : p[x]})

-----------------------------------------------------------------------------
(* C8 and C9 *)

Lat1 == input_fc[1].bbox[2]
Lat2 == input_fc[1].bbox[4]

\* the latitude the DEM selection is meant to look at
RelevantLat == IF Lat1 > 0 /\ Lat2 > 0 THEN Max(Lat1, Lat2) ELSE Min(Lat1, Lat2)

SameHemisphere == (Lat1 > 0 /\ Lat2 > 0) \/ (Lat1 < 0 /\ Lat2 < 0)

\* the DEM the template's Terrain-Correction node names
DemOf(nodes) == nodes[IndexOf(nodes, "Terrain-Correction")].dem

\* C8 as stated: for two latitude bounds of the same sign the DEM selection
\* looks at their maximum (north) or minimum (south) and names the alternate
\* DEM if and only if that latitude is outside the closed interval
\* [-56, 60]; on -56 and on 60 the default DEM stays.
C8_AsStated ==
    (pc = "process_snap" /\ SameHemisphere) =>
        /\ r_c = Bound(RelevantLat)
        /\ DemOf(template) = "ASTER 1sec GDEM"
              <=> (RelevantLat < DemSouth \/ RelevantLat > DemNorth)
        /\ DemOf(template) = "SRTM 3Sec"
              <=> (DemSouth <= RelevantLat /\ RelevantLat <= DemNorth)

\* C9 as stated: the DEM selection never crashes; for every bounding box
\* extract_relevant_coordinate returns a latitude and the run goes on to
\* process the feature.
C9_AsStated ==
    /\ pc # "UnboundLocalError"
    /\ pc = "process_snap" => r_c.bound

-----------------------------------------------------------------------------
(* C10 *)

Ids(nodes) == {nodes[k].id : k \in 1..Len(nodes)}

NodeOf(nodes, id) == nodes[IndexOf(nodes, id)]

\* every source reference names a node of the graph; only Read has none
NoDangling(nodes) ==
    \A k \in 1..Len(nodes) :
        IF nodes[k].id = "Read"
        THEN nodes[k].refid = ""
        ELSE nodes[k].refid \in Ids(nodes)

\* the ids met going upstream from id, along the source references
RECURSIVE UpstreamWalk(_, _, _)
UpstreamWalk(nodes, id, fuel) ==
    IF fuel = 0 \/ id \notin Ids(nodes) THEN << >>
    ELSE << id >> \o UpstreamWalk(nodes, NodeOf(nodes, id).refid, fuel - 1)

\* going upstream from Write meets every node once and ends at Read
SingleChain(nodes) ==
    LET walk == UpstreamWalk(nodes, "Write", Len(nodes) + 1)
    IN  /\ Len(walk) = Len(nodes)
        /\ {walk[k] : k \in 1..Len(walk)} = Ids(nodes)
        /\ walk[Len(walk)] = "Read"

\* after is before without node x; the nodes that read x now read what x
\* read, and every other node is as it was
Relinked(before, after, x) ==
    /\ HasNode(before, x)
    /\ Len(after) = Len(before) - 1
    /\ Ids(after) = Ids(before) \ {x}
    /\ \A k \in 1..Len(after) :
          LET old == NodeOf(before, after[k].id)
          IN  IF old.refid = x
              THEN after[k] = [old EXCEPT !.refid = NodeOf(before, x).refid]
              ELSE after[k] = old

\* C10: every pruning step removes its node, re-links that node's consumer
\* to that node's producer and changes no other node; the pruned copy of the
\* template, at every step and for every combination of disabled nodes, has
\* no dangling source reference and is one chain from Read to Write.
C10_PruningKeepsChain ==
    /\ [](template_copy.exists =>
             (NoDangling(template_copy.nodes) /\ SingleChain(template_copy.nodes)))
    /\ [][(pc = "for_key" /\ template_copy' # template_copy)
             => Relinked(template_copy.nodes, template_copy'.nodes,
                         TemplateKeys[key_i])]_vars

\* the graph written with all five optional nodes pruned
C10_Witness ==
    /\ pc = "os_system"
    /\ Len(graphs) = 1
    /\ template # BaseTemplate
    /\ Ids(graphs[1].nodes) = Ids(template) \ {TemplateKeys[k] : k \in 1..Len(TemplateKeys)}
    /\ Len(graphs[1].nodes) = Len(template) - Len(TemplateKeys)

-----------------------------------------------------------------------------
(* The two models of process_template agree *)

\* the graph the steps of process_template produce is the one
\* generate_snap_graph writes in one step
StepsAgree ==
    pc = "os_system" =>
        graphs[Len(graphs)].nodes = process_template(template, params)

-----------------------------------------------------------------------------
(* C11 *)

\* assert_dem has run for feature i
DemChecked(i) ==
    \/ i < feat
    \/ /\ i = feat
       /\ pc \notin {"process", "WRONG_INPUT_ERROR", "for_feature",
                     "UnboundLocalError"}

\* assert_dem selected the alternate DEM for feature i
AlternateSelected(i) ==
    LET r == extract_relevant_coordinate(input_fc[i].bbox)
    IN  r.bound /\ srtm_not_covering(r.value)

\* the latitudes of feature i lie inside the default DEM's coverage
InsideCoverage(i) ==
    /\ DemSouth < input_fc[i].bbox[2] /\ input_fc[i].bbox[2] < DemNorth
    /\ DemSouth < input_fc[i].bbox[4] /\ input_fc[i].bbox[4] < DemNorth

\* graph k does terrain correction
CorrectsTerrain(k) == HasNode(graphs[k].nodes, "Terrain-Correction")

\* C11: once the alternate DEM has been selected for a feature, skipped later
\* or not, the template names the alternate DEM for the rest of the run, and
\* every graph generated for that feature or a later one that does terrain
\* correction names the alternate DEM, whatever the later feature's latitude
C11_DemSwapPersists ==
    \A i \in 1..Len(input_fc) :
        (DemChecked(i) /\ AlternateSelected(i)) =>
            /\ DemOf(template) = "ASTER 1sec GDEM"
            /\ \A k \in 1..Len(graphs) :
                   (graphs[k].feature >= i /\ CorrectsTerrain(k))
                       => DemOf(graphs[k].nodes) = "ASTER 1sec GDEM"

\* the first feature selected the alternate DEM and was skipped for a missing
\* polarisation; the second lies inside the default DEM's coverage and its
\* graph names the alternate DEM
C11_Witness ==
    /\ Len(input_fc) = 2
    /\ AlternateSelected(1)
    /\ ~AllAvailable(1)
    /\ InsideCoverage(2)
    /\ pc = "os_system"
    /\ feat = 2
    /\ \A k \in 1..Len(graphs) : graphs[k].feature = 2
    /\ CorrectsTerrain(Len(graphs))
    /\ DemOf(graphs[Len(graphs)].nodes) = "ASTER 1sec GDEM"

-----------------------------------------------------------------------------
(* C12 *)

\* the ids of the nodes whose configuration flag is falsy
DisabledIds ==
    {TemplateKeys[k] : k \in {j \in 1..Len(TemplateKeys) :
                                 ~TemplateParam(params, TemplateKeys[j])}}

\* the DEM the base template names while feature j is processed
BaseDemAt(j) ==
    IF \E i \in 1..j : AlternateSelected(i)
    THEN "ASTER 1sec GDEM"
    ELSE "SRTM 3Sec"

\* feature i got a graph and was skipped with every tile discarded, so its
\* template copy was not removed
SkippedWithCopy(i) ==
    /\ Processed(i)
    /\ ~Emitted(i)
    /\ \E k \in 1..Len(graphs) : graphs[k].feature = i

\* C12: pruning never changes the base template, whose nodes and links stay
\* those of the shipped template; every graph generated in a run, for any
\* feature and polarisation, holds exactly the base template's nodes minus
\* the nodes whose flag is falsy and names the DEM the base template named
\* when the graph was generated, however many graphs were generated before
\* and whether or not an earlier feature left its template copy behind
C12_PruningOnFreshCopy ==
    /\ Len(template) = Len(BaseTemplate)
    /\ \A n \in 1..Len(template) :
           /\ template[n].id = BaseTemplate[n].id
           /\ template[n].refid = BaseTemplate[n].refid
    /\ \A k \in 1..Len(graphs) :
           /\ Ids(graphs[k].nodes) = Ids(template) \ DisabledIds
           /\ Len(graphs[k].nodes) = Cardinality(Ids(template) \ DisabledIds)
           /\ CorrectsTerrain(k)
                  => DemOf(graphs[k].nodes) = BaseDemAt(graphs[k].feature)

\* the first feature was skipped with its template copy left behind, pruned
\* and naming the default DEM; the second selected the alternate DEM, and
\* its graph, the third of the run or later, is the pruned base template
C12_Witness ==
    /\ Len(input_fc) = 2
    /\ SkippedWithCopy(1)
    /\ ~AlternateSelected(1)
    /\ AlternateSelected(2)
    /\ pc = "os_system"
    /\ feat = 2
    /\ Len(graphs) >= 3
    /\ DisabledIds = {"Land-Sea-Mask"}
    /\ Ids(graphs[Len(graphs)].nodes) = Ids(BaseTemplate) \ {"Land-Sea-Mask"}
    /\ DemOf(graphs[Len(graphs)].nodes) = "ASTER 1sec GDEM"
    /\ DemOf(graphs[1].nodes) = "SRTM 3Sec"

====
